---- MODULE Spec2Model ----
(***************************************************************************)
(* Model of the MAFFA backend (src/main.py): the endpoints read_root,      *)
(* list_gigs, submit_contact and test_database over a document store.      *)
(*                                                                         *)
(* Text is a sequence of one-character strings, so that parsing            *)
(* (datetime.fromisoformat), truncation (str(e)[:50]) and emptiness are    *)
(* computed rather than assumed.  A stored value is a tagged record: the   *)
(* store is weakly typed, so every field of a raw gig document may hold    *)
(* a value of any type or be missing.                                      *)
(***************************************************************************)
EXTENDS Integers, Sequences, FiniteSets, TLC

VARIABLES
    gigs,       \* the "gig" collection of the store, in the store's order
    messages,   \* the "message" collection of the store
    clock,      \* wall-clock seconds, read by datetime.utcnow()
    call,       \* the endpoint call handled last: its input and what the store did
    resp        \* the response to that call

vars == <<gigs, messages, clock, call, resp>>

-----------------------------------------------------------------------------
(* Bounds of the model *)

MaxGigs == 5
MaxStore == 1
MaxMsgs == 1
MaxClock == 1
MaxLimit == 2

(* Constants of the program *)

DefaultLimit == 20
HTTP_ERROR == 500
StatusErrLen == 50
MaxCollections == 10

-----------------------------------------------------------------------------
(* Stored values *)

Null == [k |-> "null"]
VStr(s) == [k |-> "str", s |-> s]
VInt(n) == [k |-> "int", n |-> n]
VBool(b) == [k |-> "bool", b |-> b]
VDateTime(t) == [k |-> "dt", t |-> t]
VList(xs) == [k |-> "list", items |-> xs]

Keys == {"title", "venue", "city", "date", "ticket_url", "is_confirmed"}

(* dict.get(key, default) *)
Get(d, key, default) == IF key \in DOMAIN d THEN d[key] ELSE default

(* bool(v): Python's truth value of a stored value *)
Truthy(v) ==
    CASE v.k = "null" -> FALSE
      [] v.k = "bool" -> v.b
      [] v.k = "int"  -> v.n # 0
      [] v.k = "str"  -> Len(v.s) > 0
      [] v.k = "list" -> Len(v.items) > 0
      [] OTHER        -> TRUE

-----------------------------------------------------------------------------
(* datetime.fromisoformat on the formats every CPython version accepts:    *)
(* YYYY-MM-DD, optionally followed by one separator character and          *)
(* HH, HH:MM or HH:MM:SS.  A timestamp is <<year, month, day, h, m, s>>.   *)

Digits == <<"0", "1", "2", "3", "4", "5", "6", "7", "8", "9">>

DigitSet == {Digits[i] : i \in 1..10}

IsDigit(c) == c \in DigitSet

DigitOf == [c \in DigitSet |-> (CHOOSE i \in 1..10 : Digits[i] = c) - 1]

DigitVal(c) == DigitOf[c]

AllDigits(s, a, b) == \A i \in a..b : IsDigit(s[i])

RECURSIVE Number(_, _, _)
Number(s, a, b) ==
    IF a > b THEN 0 ELSE Number(s, a, b - 1) * 10 + DigitVal(s[b])

IsLeap(y) == (y % 4 = 0 /\ y % 100 # 0) \/ y % 400 = 0

DaysInMonth(y, m) ==
    CASE m \in {4, 6, 9, 11} -> 30
      [] m = 2 -> IF IsLeap(y) THEN 29 ELSE 28
      [] OTHER -> 31

DateShape(s) ==
    /\ AllDigits(s, 1, 4) /\ s[5] = "-"
    /\ AllDigits(s, 6, 7) /\ s[8] = "-"
    /\ AllDigits(s, 9, 10)

TimeShape(s) ==
    /\ Len(s) \in {13, 16, 19}
    /\ AllDigits(s, 12, 13)
    /\ Len(s) >= 16 => (s[14] = ":" /\ AllDigits(s, 15, 16))
    /\ Len(s) >= 19 => (s[17] = ":" /\ AllDigits(s, 18, 19))

Field(s, a, b) == IF Len(s) >= b THEN Number(s, a, b) ELSE 0

ParsedFields(s) ==
    << Number(s, 1, 4), Number(s, 6, 7), Number(s, 9, 10),
       Field(s, 12, 13), Field(s, 15, 16), Field(s, 18, 19) >>

InRange(t) ==
    /\ t[1] \in 1..9999
    /\ t[2] \in 1..12
    /\ t[3] \in 1..DaysInMonth(t[1], t[2])
    /\ t[4] \in 0..23
    /\ t[5] \in 0..59
    /\ t[6] \in 0..59

(* TRUE when fromisoformat returns, FALSE when it raises ValueError *)
IsoParses(s) ==
    /\ Len(s) >= 10
    /\ DateShape(s)
    /\ Len(s) > 10 => TimeShape(s)
    /\ InRange(ParsedFields(s))

FromIsoformat(s) == ParsedFields(s)

(* datetime.utcnow() at clock reading c *)
UtcNow(c) == <<2026, 1, 1, 0, 0, c>>

-----------------------------------------------------------------------------
(* Gig(...): the schema's constructor.  A text field takes a string, date  *)
(* a timestamp, ticket_url a string or null, is_confirmed a boolean;       *)
(* anything else is a validation error.                                    *)

GigValid(a) ==
    /\ a.title.k = "str"
    /\ a.venue.k = "str"
    /\ a.city.k = "str"
    /\ a.date.k = "dt"
    /\ a.ticket_url.k \in {"str", "null"}
    /\ a.is_confirmed.k = "bool"

(* DateVal with the fallback of line 39 giving None instead of the time *)
DateValNoFallback(d, c) ==
    LET date_val == Get(d, "date", Null)
    IN  IF date_val.k = "str"
        THEN IF IsoParses(date_val.s)
             THEN VDateTime(FromIsoformat(date_val.s))
             ELSE Null
        ELSE date_val

(* list_gigs, lines 34-39: the date of raw record d, read at clock c *)
DateVal(d, c) ==
    LET date_val == Get(d, "date", Null)
    IN  IF date_val.k = "str"
        THEN IF IsoParses(date_val.s)
             THEN VDateTime(FromIsoformat(date_val.s))
             ELSE VDateTime(UtcNow(c))
        ELSE date_val

(* GigArgs reading every key with d.get(key), no default *)
GigArgsNoDefaults(d, c) ==
    [ title        |-> Get(d, "title", Null),
      venue        |-> Get(d, "venue", Null),
      city         |-> Get(d, "city", Null),
      date         |-> DateVal(d, c),
      ticket_url   |-> Get(d, "ticket_url", Null),
      is_confirmed |-> VBool(Truthy(Get(d, "is_confirmed", VBool(TRUE)))) ]

(* GigArgs taking is_confirmed only from a stored true *)
GigArgsStrictBool(d, c) ==
    [ title        |-> Get(d, "title", VStr(<<>>)),
      venue        |-> Get(d, "venue", VStr(<<>>)),
      city         |-> Get(d, "city", VStr(<<>>)),
      date         |-> DateVal(d, c),
      ticket_url   |-> Get(d, "ticket_url", Null),
      is_confirmed |-> VBool(Get(d, "is_confirmed", VBool(TRUE)) = VBool(TRUE)) ]

(* list_gigs, lines 40-47: the arguments handed to Gig(...) for d *)
GigArgs(d, c) ==
    [ title        |-> Get(d, "title", VStr(<<>>)),
      venue        |-> Get(d, "venue", VStr(<<>>)),
      city         |-> Get(d, "city", VStr(<<>>)),
      date         |-> DateVal(d, c),
      ticket_url   |-> Get(d, "ticket_url", Null),
      is_confirmed |-> VBool(Truthy(Get(d, "is_confirmed", VBool(TRUE)))) ]

(* list_gigs, lines 31-48: the loop over docs.  The result tells whether   *)
(* Gig(...) raised and holds the Gigs appended before that.                *)
RECURSIVE ConvertLoop(_, _, _)
ConvertLoop(docs, c, built) ==
    IF docs = <<>> THEN [raised |-> FALSE, gigs |-> built]
    ELSE LET a == GigArgs(Head(docs), c)
         IN  IF GigValid(a)
             THEN ConvertLoop(Tail(docs), c, Append(built, a))
             ELSE [raised |-> TRUE, gigs |-> built]

(* The loop with gigs.insert(0, ...) for gigs.append(...) *)
RECURSIVE ReversedLoop(_, _, _)
ReversedLoop(docs, c, built) ==
    IF docs = <<>> THEN [raised |-> FALSE, gigs |-> built]
    ELSE LET a == GigArgs(Head(docs), c)
         IN  IF GigValid(a)
             THEN ReversedLoop(Tail(docs), c, <<a>> \o built)
             ELSE [raised |-> TRUE, gigs |-> built]

ConvertReversed(docs, c) == ReversedLoop(docs, c, <<>>)

(* The loop with a try/except around each record, skipping those that raise *)
RECURSIVE SkipLoop(_, _, _)
SkipLoop(docs, c, built) ==
    IF docs = <<>> THEN [raised |-> FALSE, gigs |-> built]
    ELSE LET a == GigArgs(Head(docs), c)
         IN  IF GigValid(a)
             THEN SkipLoop(Tail(docs), c, Append(built, a))
             ELSE SkipLoop(Tail(docs), c, built)

ConvertSkipBad(docs, c) == SkipLoop(docs, c, <<>>)

Convert(docs, c) == ConvertLoop(docs, c, <<>>)

(* list_gigs without the except clause of lines 49-51 *)
ListGigsPropagates(store, c) ==
    IF store.raised THEN [kind |-> "error", status_code |-> HTTP_ERROR]
    ELSE LET r == Convert(store.docs, c)
         IN  IF r.raised THEN [kind |-> "error", status_code |-> HTTP_ERROR]
             ELSE [kind |-> "return", body |-> r.gigs]

(* list_gigs, lines 28-51: the response, given what get_documents did      *)
(* (store.raised, store.docs)                                              *)
ListGigsResponse(store, c) ==
    IF store.raised THEN [kind |-> "return", body |-> <<>>]
    ELSE LET r == Convert(store.docs, c)
         IN  IF r.raised THEN [kind |-> "return", body |-> <<>>]
             ELSE [kind |-> "return", body |-> r.gigs]

-----------------------------------------------------------------------------
(* The document store (database.py): get_documents(kind, filter, limit)    *)
(* and create_document(kind, payload).  Either may raise.                  *)

Min(a, b) == IF a < b THEN a ELSE b

Prefix(s, n) == SubSeq(s, 1, Min(n, Len(s)))

(* What get_documents("gig", {}, limit) may return: up to limit records in *)
(* the store's order; the store's treatment of a limit below 1 is its own, *)
(* so any prefix may come back.                                            *)
GetDocuments(coll, limit) ==
    IF limit >= 1 THEN {Prefix(coll, limit)}
    ELSE {Prefix(coll, n) : n \in 0..Len(coll)}

(* The identifier create_document gives the next document of coll *)
NewId(coll) == <<"i", "d", Digits[Len(coll) + 2]>>

(* The errors a store call may raise, by their text str(e): a short one    *)
(* and one longer than any truncation in the program                       *)
ErrNoDb == <<"n", "o", " ", "d", "b">>
ErrLong == [i \in 1..60 |-> IF i % 2 = 1 THEN "e" ELSE "r"]
Exc(text) == [type |-> "Exception", msg |-> text]
StoreErrors == {Exc(ErrNoDb), Exc(ErrLong)}

(* The outcomes of one get_documents call: it raises (no database is       *)
(* configured, or the query fails) or returns documents                    *)
GetOutcomes(coll, limit) ==
    {[raised |-> TRUE, err |-> Exc(ErrNoDb)]}
        \cup {[raised |-> FALSE, docs |-> ds] : ds \in GetDocuments(coll, limit)}

(* str(e): the text the exception was raised with *)
StrOf(e) == e.msg

GetCall(limit) == [fn |-> "get_documents", coll |-> "gig", filter |-> {}, limit |-> limit]
CreateCall(m) == [fn |-> "create_document", coll |-> "message", payload |-> m]

-----------------------------------------------------------------------------
(* Endpoints *)

(* GET / *)
read_root ==
    /\ call' = [op |-> "read_root", storeCalls |-> <<>>]
    /\ resp' = [kind |-> "return", body |-> "MAFFA Backend Running"]
    /\ UNCHANGED <<gigs, messages, clock>>

(* line 27: the limit parameter of a query, 20 when the query has none *)
LimitOf(query) == Get(query, "limit", DefaultLimit)

(* GET /api/gigs *)
list_gigs(query) ==
    \E store \in GetOutcomes(gigs, LimitOf(query)) :
        /\ call' = [op |-> "list_gigs", query |-> query, store |-> store,
                    now |-> clock, storeCalls |-> <<GetCall(LimitOf(query))>>]
        /\ resp' = ListGigsResponse(store, clock)
        /\ UNCHANGED <<gigs, messages, clock>>

(* POST /api/contact, create_document returning *)
SubmitOk(message) ==
    /\ Len(messages) < MaxMsgs
    /\ messages' = Append(messages, message)
    /\ call' = [op |-> "submit_contact", message |-> message,
                store |-> [raised |-> FALSE, id |-> NewId(messages)],
                storeCalls |-> <<CreateCall(message)>>]
    /\ resp' = [kind |-> "return", body |-> [status |-> "ok", id |-> NewId(messages)]]
    /\ UNCHANGED <<gigs, clock>>

(* submit_contact cutting the detail as test_database cuts its errors *)
SubmitFailTruncated(message, e) ==
    /\ call' = [op |-> "submit_contact", message |-> message,
                store |-> [raised |-> TRUE, err |-> e],
                storeCalls |-> <<CreateCall(message)>>]
    /\ resp' = [kind |-> "HTTPException", status_code |-> HTTP_ERROR,
                detail |-> Prefix(StrOf(e), StatusErrLen)]
    /\ UNCHANGED <<gigs, messages, clock>>

(* submit_contact calling create_document a second time after a failure *)
SubmitFailRetry(message, e) ==
    /\ call' = [op |-> "submit_contact", message |-> message,
                store |-> [raised |-> TRUE, err |-> e],
                storeCalls |-> <<CreateCall(message), CreateCall(message)>>]
    /\ resp' = [kind |-> "HTTPException", status_code |-> HTTP_ERROR, detail |-> StrOf(e)]
    /\ UNCHANGED <<gigs, messages, clock>>

(* POST /api/contact, create_document raising e *)
SubmitFail(message, e) ==
    /\ call' = [op |-> "submit_contact", message |-> message,
                store |-> [raised |-> TRUE, err |-> e],
                storeCalls |-> <<CreateCall(message)>>]
    /\ resp' = [kind |-> "HTTPException", status_code |-> HTTP_ERROR, detail |-> StrOf(e)]
    /\ UNCHANGED <<gigs, messages, clock>>

Messages == {[name |-> "ann", message |-> "hi"], [name |-> "bob", message |-> "gig?"]}

submit_contact(message) ==
    \/ SubmitOk(message)
    \/ \E e \in StoreErrors : SubmitFail(message, e)

(* The wall clock advances *)
Tick ==
    /\ clock < MaxClock
    /\ clock' = clock + 1
    /\ UNCHANGED <<gigs, messages, call, resp>>

-----------------------------------------------------------------------------
(* GET /test *)

(* What test_database may find: the import of db failing with ImportError  *)
(* or with another error, db being None, reading db.name raising, and      *)
(* db.list_collection_names() returning names or raising.                  *)
CollectionLists ==
    { <<>>, <<"gig", "message">>, [i \in 1..(MaxCollections + 1) |-> "c"] }

DbConditions ==
    {[c |-> "import_error"], [c |-> "db_none"]}
        \cup {[c |-> "import_raises", err |-> e] : e \in StoreErrors}
        \cup {[c |-> "name_raises", err |-> e] : e \in StoreErrors}
        \cup {[c |-> "list_raises", err |-> e] : e \in StoreErrors}
        \cup {[c |-> "list_ok", names |-> ns] : ns \in CollectionLists}

Status(label, text) == [label |-> label, err |-> text]

(* lines 65-72 *)
Response0 ==
    [ backend           |-> "Running",
      database          |-> Status("Not Available", <<>>),
      database_url      |-> "None",
      database_name     |-> "None",
      connection_status |-> "Not Connected",
      collections       |-> <<>> ]

(* lines 78-81 *)
Connected(r) ==
    [r EXCEPT !.database = Status("Available", <<>>),
              !.database_url = "Configured",
              !.database_name = "db.name",
              !.connection_status = "Connected"]

(* Inspect without the else branch of lines 89-90 *)
InspectNoElse(cond) ==
    CASE cond.c = "import_error" ->
            [Response0 EXCEPT !.database =
                Status("Database module not found (run enable-database first)", <<>>)]
      [] cond.c \in {"import_raises", "name_raises"} ->
            [Response0 EXCEPT !.database =
                Status("Error: ", Prefix(StrOf(cond.err), StatusErrLen))]
      [] cond.c = "db_none" -> Response0
      [] cond.c = "list_ok" ->
            [Connected(Response0) EXCEPT
                 !.collections = Prefix(cond.names, MaxCollections),
                 !.database = Status("Connected & Working", <<>>)]
      [] cond.c = "list_raises" ->
            [Connected(Response0) EXCEPT !.database =
                Status("Connected but Error: ", Prefix(StrOf(cond.err), StatusErrLen))]

(* lines 74-95: the response after the try statement under condition cond *)
Inspect(cond) ==
    CASE cond.c = "import_error" ->
            [Response0 EXCEPT !.database =
                Status("Database module not found (run enable-database first)", <<>>)]
      [] cond.c = "import_raises" ->
            [Response0 EXCEPT !.database =
                Status("Error: ", Prefix(StrOf(cond.err), StatusErrLen))]
      [] cond.c = "db_none" ->
            [Response0 EXCEPT !.database =
                Status("Available but not initialized", <<>>)]
      [] cond.c = "name_raises" ->
            [Response0 EXCEPT !.database =
                                 Status("Error: ", Prefix(StrOf(cond.err), StatusErrLen)),
                              !.database_url = "Configured"]
      [] cond.c = "list_ok" ->
            [Connected(Response0) EXCEPT
                 !.collections = Prefix(cond.names, MaxCollections),
                 !.database = Status("Connected & Working", <<>>)]
      [] cond.c = "list_raises" ->
            [Connected(Response0) EXCEPT !.database =
                Status("Connected but Error: ", Prefix(StrOf(cond.err), StatusErrLen))]

(* lines 97-98 *)
EnvReport(r, urlSet, nameSet) ==
    [r EXCEPT !.database_url = IF urlSet THEN "Set" ELSE "Not Set",
              !.database_name = IF nameSet THEN "Set" ELSE "Not Set"]

DbCalls(cond) ==
    IF cond.c \in {"list_ok", "list_raises"}
    THEN <<[fn |-> "list_collection_names"]>> ELSE <<>>

test_database ==
    \E cond \in DbConditions, urlSet \in BOOLEAN, nameSet \in BOOLEAN :
        /\ call' = [op |-> "test_database", cond |-> cond, urlSet |-> urlSet,
                    nameSet |-> nameSet, storeCalls |-> DbCalls(cond)]
        /\ resp' = [kind |-> "return", body |-> EnvReport(Inspect(cond), urlSet, nameSet)]
        /\ UNCHANGED <<gigs, messages, clock>>

(* The diagnostic state a database status stands for *)
DiagState(status) ==
    CASE status.label = "Database module not found (run enable-database first)"
                                                       -> "ModuleMissing"
      [] status.label = "Available but not initialized" -> "ClientUninitialized"
      [] status.label = "Available"                     -> "Connected"
      [] status.label = "Connected but Error: "         -> "ConnectedWithListError"
      [] status.label = "Connected & Working"           -> "ConnectedAndWorking"
      [] status.label = "Error: "                       -> "InspectionError"
      [] OTHER                                          -> "NotAvailable"

-----------------------------------------------------------------------------
(* Raw gig documents *)

T_Live == <<"L", "i", "v", "e">>
T_Club == <<"C", "l", "u", "b">>
T_Rome == <<"R", "o", "m", "e">>
T_Url == <<"h", "t", "t", "p", ":", "/", "/", "t">>
T_False == <<"f", "a", "l", "s", "e">>
S_IsoDateTime == <<"2", "0", "2", "4", "-", "0", "6", "-", "0", "1", "T", "2", "0", ":", "0", "0", ":", "0", "0">>
S_IsoDate == <<"2", "0", "2", "4", "-", "0", "6", "-", "0", "1">>
S_NotADate == <<"n", "o", "t", "-", "a", "-", "d", "a", "t", "e">>
S_Ordinal == <<"2", "0", "2", "4", "-", "1", "5", "3">>
S_BadMonth == <<"2", "0", "2", "4", "-", "1", "3", "-", "0", "1", "T", "2", "0", ":", "0", "0", ":", "0", "0">>
S_Feb29 == <<"2", "0", "2", "3", "-", "0", "2", "-", "2", "9">>

Absent == [k |-> "absent"]

(* The document holding the fields of t that are not Absent *)
MkDoc(t) == [f \in {g \in Keys : t[g] # Absent} |-> t[f]]

TitleValues == {Absent, Null, VStr(T_Live), VInt(7)}
VenueValues == {Absent, Null, VStr(T_Club)}
CityValues == {Absent, VStr(T_Rome)}
DateValues ==
    {Absent, Null, VInt(0), VDateTime(<<2025, 12, 31, 23, 59, 59>>)}
        \cup {VStr(x) : x \in {<<>>, S_IsoDateTime, S_IsoDate, S_NotADate,
                               S_Ordinal, S_BadMonth, S_Feb29}}
TicketValues == {Absent, Null, VStr(T_Url)}
ConfirmedValues ==
    {Absent, Null, VInt(0), VInt(1), VStr(<<>>), VStr(T_False),
     VBool(TRUE), VBool(FALSE), VList(<<>>), VList(<<VInt(0)>>)}

AllDocs ==
    { MkDoc(t) : t \in [title : TitleValues, venue : VenueValues,
                        city : CityValues, date : DateValues,
                        ticket_url : TicketValues,
                        is_confirmed : ConfirmedValues] }

(* Three documents of the gig collection: two well-formed, one without a   *)
(* date                                                                    *)
GigFull ==
    MkDoc([title |-> VStr(T_Live), venue |-> VStr(T_Club), city |-> VStr(T_Rome),
           date |-> VStr(S_IsoDateTime), ticket_url |-> VStr(T_Url),
           is_confirmed |-> VBool(TRUE)])
GigBare ==
    MkDoc([title |-> Absent, venue |-> Absent, city |-> Absent,
           date |-> VStr(S_NotADate), ticket_url |-> Absent,
           is_confirmed |-> VInt(0)])
GigNoDate ==
    MkDoc([title |-> VStr(T_Live), venue |-> VStr(T_Club), city |-> Absent,
           date |-> Absent, ticket_url |-> Absent, is_confirmed |-> Absent])

SampleDocs == {GigFull, GigBare, GigNoDate}

SeqsUpTo(S, n) == UNION {[1..m -> S] : m \in 0..n}

(* The queries of GET /api/gigs: no parameter, or limit=n *)
Queries == {<<>>} \cup {[limit |-> n] : n \in 0..MaxLimit}

-----------------------------------------------------------------------------
(* The service: any interleaving of endpoint calls over a gig collection   *)
(* filled out of band                                                      *)

Init ==
    /\ gigs \in SeqsUpTo(SampleDocs, MaxStore)
    /\ messages = <<>>
    /\ clock = 0
    /\ call = [op |-> "none", storeCalls |-> <<>>]
    /\ resp = [kind |-> "none"]

Next ==
    \/ read_root
    \/ \E query \in Queries : list_gigs(query)
    \/ \E message \in Messages : submit_contact(message)
    \/ test_database
    \/ Tick

Spec == Init /\ [][Next]_vars

(* Listing alone, over gig collections of up to MaxGigs documents *)
InitList ==
    /\ gigs \in SeqsUpTo(SampleDocs, MaxGigs)
    /\ messages = <<>>
    /\ clock = 0
    /\ call = [op |-> "none", storeCalls |-> <<>>]
    /\ resp = [kind |-> "none"]

NextList ==
    \/ \E query \in Queries : list_gigs(query)
    \/ Tick

SpecList == InitList /\ [][NextList]_vars

(* Normalization of one raw document of any shape *)
InitNorm ==
    /\ gigs \in {<<d>> : d \in AllDocs}
    /\ messages = <<>>
    /\ clock = 0
    /\ call = [op |-> "none", storeCalls |-> <<>>]
    /\ resp = [kind |-> "none"]

NextNorm ==
    \/ list_gigs(<<>>)
    \/ Tick

SpecNorm == InitNorm /\ [][NextNorm]_vars

-----------------------------------------------------------------------------
(* Properties *)

TextKeys == {"title", "venue", "city"}

(* Gig(...) raises for raw record d converted at clock c *)
GigRaises(d, c) == ~GigValid(GigArgs(d, c))

(* The last call was list_gigs and get_documents returned *)
Listed == call.op = "list_gigs" /\ ~call.store.raised

(* list_gigs was handed exactly one raw record *)
NormCase == Listed /\ Len(call.store.docs) = 1

(* ... and returned a Gig for it *)
GigBuilt == NormCase /\ Len(resp.body) = 1

(* Every field of d but date is missing or of the type its Gig field takes *)
OtherFieldsFine(d) ==
    /\ \A f \in TextKeys : Get(d, f, VStr(<<>>)).k = "str"
    /\ Get(d, "ticket_url", Null).k \in {"str", "null"}

(* C1: list_gigs always returns normally, and returns the empty sequence   *)
(* when get_documents raised or Gig(...) raised for a returned record.     *)
C1_ListGigsNeverErrors ==
    call.op = "list_gigs" =>
        /\ resp.kind = "return"
        /\ call.store.raised => resp.body = <<>>
        /\ (~call.store.raised
              /\ \E i \in 1..Len(call.store.docs) :
                     GigRaises(call.store.docs[i], call.now))
           => resp.body = <<>>

C1_Witness ==
    /\ call.op = "list_gigs"
    /\ call.store.raised
    /\ Len(gigs) > 0
    /\ resp = [kind |-> "return", body |-> <<>>]

(* C2: submit_contact returns {status: "ok", id} with the id                *)
(* create_document returned, and when create_document raised e it raises   *)
(* HTTP 500 whose detail is str(e) in full, never status "ok".            *)
C2_SubmitReportsPersistence ==
    call.op = "submit_contact" =>
        IF call.store.raised
        THEN resp = [kind |-> "HTTPException", status_code |-> 500,
                     detail |-> call.store.err.msg]
        ELSE resp = [kind |-> "return",
                     body |-> [status |-> "ok", id |-> call.store.id]]

C2_Witness ==
    /\ call.op = "submit_contact"
    /\ call.store.raised
    /\ call.store.err.msg = ErrLong
    /\ resp.kind = "HTTPException"
    /\ Len(resp.detail) = 60

(* C3: the conversion of a raw record never fails: whatever keys are       *)
(* missing or wrongly typed, list_gigs builds a fully populated Gig from   *)
(* the record.                                                             *)
C3_NormalizationNeverFails ==
    NormCase => (Len(resp.body) = 1 /\ GigValid(resp.body[1]))

(* C4: a stored timestamp is returned as it is, a string that              *)
(* fromisoformat parses is returned as the parsed timestamp                *)
(* ("2024-06-01T20:00:00" as 2024-06-01 20:00:00), a string that does not  *)
(* parse is returned as the time of the call, and a string date raises     *)
(* nothing.                                                                *)
C4_DateCoercion ==
    NormCase =>
        LET d  == call.store.docs[1]
            dv == Get(d, "date", Null)
        IN  /\ (dv.k = "str" /\ OtherFieldsFine(d)) => Len(resp.body) = 1
            /\ Len(resp.body) = 1 =>
                  LET g == resp.body[1]
                  IN  /\ dv.k = "dt" => g.date = dv
                      /\ (dv.k = "str" /\ IsoParses(dv.s))
                            => g.date = VDateTime(FromIsoformat(dv.s))
                      /\ (dv.k = "str" /\ ~IsoParses(dv.s))
                            => g.date = VDateTime(UtcNow(call.now))
                      /\ dv = VStr(S_IsoDateTime)
                            => g.date = VDateTime(<<2024, 6, 1, 20, 0, 0>>)
                      /\ dv = VStr(S_IsoDate)
                            => g.date = VDateTime(<<2024, 6, 1, 0, 0, 0>>)
                      /\ dv \in {VStr(S_NotADate), VStr(S_Ordinal), VStr(S_BadMonth),
                                  VStr(S_Feb29), VStr(<<>>)}
                            => g.date = VDateTime(<<2026, 1, 1, 0, 0, call.now>>)

C4_Witness ==
    /\ GigBuilt
    /\ call.now = 1
    /\ Get(call.store.docs[1], "date", Null) = VStr(S_NotADate)
    /\ resp.body[1].date = VDateTime(UtcNow(1))

(* C5: in the Gig returned for a raw record, a missing title, venue or     *)
(* city is "" and never null, a missing ticket_url is null, ticket_url is  *)
(* non-null only when the record carried a value, and a field that is      *)
(* present keeps its stored value; missing fields do not stop the Gig      *)
(* from being returned.                                                    *)
C5_AbsentFieldDefaults ==
    NormCase =>
        LET d == call.store.docs[1]
        IN  /\ (Get(d, "date", Null).k \in {"str", "dt"} /\ OtherFieldsFine(d))
                  => Len(resp.body) = 1
            /\ Len(resp.body) = 1 =>
                  LET g == resp.body[1]
                  IN  /\ \A f \in TextKeys :
                            /\ f \notin DOMAIN d => g[f] = VStr(<<>>)
                            /\ f \in DOMAIN d => g[f] = d[f]
                            /\ g[f] # Null
                      /\ "ticket_url" \notin DOMAIN d => g.ticket_url = Null
                      /\ "ticket_url" \in DOMAIN d => g.ticket_url = d.ticket_url
                      /\ g.ticket_url # Null
                            => ("ticket_url" \in DOMAIN d /\ d.ticket_url # Null)

C5_Witness ==
    /\ GigBuilt
    /\ DOMAIN call.store.docs[1] = {"date"}
    /\ resp.body[1].title = VStr(<<>>)
    /\ resp.body[1].venue = VStr(<<>>)
    /\ resp.body[1].city = VStr(<<>>)
    /\ resp.body[1].ticket_url = Null

(* C6 as stated: is_confirmed is true when the key is absent; otherwise 0, *)
(* the empty string, null and false give false and every other value       *)
(* gives true.                                                             *)
C6_Original ==
    GigBuilt =>
        LET d == call.store.docs[1]
            g == resp.body[1]
        IN  IF "is_confirmed" \notin DOMAIN d
            THEN g.is_confirmed = VBool(TRUE)
            ELSE g.is_confirmed =
                     VBool(d.is_confirmed \notin
                               {VInt(0), VStr(<<>>), Null, VBool(FALSE)})

(* C6 amended: is_confirmed is true when the key is absent; otherwise 0,   *)
(* the empty string, an empty list, null and false give false and every    *)
(* other value, the string "false" included, gives true.                   *)
C6_TruthinessCoercion ==
    GigBuilt =>
        LET d == call.store.docs[1]
            g == resp.body[1]
        IN  /\ "is_confirmed" \notin DOMAIN d => g.is_confirmed = VBool(TRUE)
            /\ "is_confirmed" \in DOMAIN d =>
                  g.is_confirmed =
                      VBool(d.is_confirmed \notin
                                {VInt(0), VStr(<<>>), VList(<<>>), Null, VBool(FALSE)})
            /\ Get(d, "is_confirmed", Null) = VStr(T_False)
                  => g.is_confirmed = VBool(TRUE)

C6_Witness ==
    /\ GigBuilt
    /\ Get(call.store.docs[1], "is_confirmed", Null) = VList(<<>>)
    /\ resp.body[1].is_confirmed = VBool(FALSE)

(* C7: list_gigs calls get_documents("gig", {}, limit) once, limit being   *)
(* 20 when the query gives none; when nothing raises it returns one Gig    *)
(* per record the store returned, in the store's order; over five          *)
(* well-formed gigs limit=2 gives exactly two Gigs.                        *)
C7_OrderAndLimit ==
    call.op = "list_gigs" =>
        /\ call.storeCalls =
              << [fn |-> "get_documents", coll |-> "gig", filter |-> {},
                  limit |-> IF "limit" \in DOMAIN call.query
                            THEN call.query.limit ELSE 20] >>
        /\ (~call.store.raised
              /\ \A i \in 1..Len(call.store.docs) :
                     ~GigRaises(call.store.docs[i], call.now))
           => /\ Len(resp.body) = Len(call.store.docs)
              /\ \A i \in 1..Len(call.store.docs) :
                    /\ resp.body[i].title = Get(call.store.docs[i], "title", VStr(<<>>))
                    /\ resp.body[i].ticket_url = Get(call.store.docs[i], "ticket_url", Null)
                    /\ GigValid(resp.body[i])
        /\ (~call.store.raised
              /\ Len(gigs) = 5
              /\ \A i \in 1..Len(gigs) : ~GigRaises(gigs[i], call.now)
              /\ call.query = [limit |-> 2])
           => Len(resp.body) = 2

C7_Witness ==
    /\ Listed
    /\ Len(gigs) = 5
    /\ \A i \in 1..Len(gigs) : ~GigRaises(gigs[i], call.now)
    /\ call.query = [limit |-> 2]
    /\ Len(resp.body) = 2
    /\ resp.body[1].title # resp.body[2].title
    /\ resp.body[1].title = Get(gigs[1], "title", VStr(<<>>))

FiveStates ==
    {"ModuleMissing", "ClientUninitialized", "Connected",
     "ConnectedWithListError", "ConnectedAndWorking"}

(* C8 as stated: test_database returns a report under every condition and  *)
(* its database status is one of ModuleMissing, ClientUninitialized,       *)
(* Connected, ConnectedWithListError, ConnectedAndWorking.                 *)
C8_Original ==
    call.op = "test_database" =>
        /\ resp.kind = "return"
        /\ DiagState(resp.body.database) \in FiveStates

(* C8 amended: test_database returns a report under every condition and    *)
(* its database status is one of the five states or, when another error    *)
(* is raised while inspecting db, the generic error status.                *)
C8_DiagnosticStates ==
    call.op = "test_database" =>
        /\ resp.kind = "return"
        /\ DiagState(resp.body.database) \in FiveStates \cup {"InspectionError"}
        /\ DiagState(resp.body.database) = "InspectionError"
              <=> call.cond.c \in {"import_raises", "name_raises"}

C8_Witness ==
    /\ call.op = "test_database"
    /\ call.cond.c = "name_raises"
    /\ resp.kind = "return"
    /\ DiagState(resp.body.database) = "InspectionError"
    /\ Len(resp.body.database.err) = 50

(* C9: no endpoint call changes the gig collection; get_documents is       *)
(* called on "gig" only and create_document on "message" only; a           *)
(* submit_contact call calls create_document exactly once, adding its      *)
(* message when it succeeds and nothing when it fails; every other step    *)
(* leaves the messages as they are.                                        *)
C9_StoreEffects ==
    [][ /\ gigs' = gigs
        /\ \A i \in 1..Len(call'.storeCalls) :
              /\ call'.storeCalls[i].fn = "get_documents"
                    => call'.storeCalls[i].coll = "gig"
              /\ call'.storeCalls[i].fn = "create_document"
                    => call'.storeCalls[i].coll = "message"
        /\ IF clock' = clock /\ call'.op = "submit_contact"
           THEN /\ Len(call'.storeCalls) = 1
                /\ call'.storeCalls[1].fn = "create_document"
                /\ IF resp'.kind = "return"
                   THEN messages' = Append(messages, call'.message)
                   ELSE messages' = messages
           ELSE messages' = messages
      ]_vars

C9_Witness ==
    /\ call.op = "submit_contact"
    /\ resp.kind = "return"
    /\ Len(messages) = 1
    /\ messages[1] = call.message

(* C10: list_gigs returns a Gig for every record the store returned or     *)
(* nothing: when Gig(...) raises for any record, as for one without a      *)
(* date, the Gigs built from the records before it are dropped and the     *)
(* result is empty.                                                        *)
C10_AllOrNothing ==
    Listed =>
        /\ Len(resp.body) \in {0, Len(call.store.docs)}
        /\ (\E i \in 1..Len(call.store.docs) :
                GigRaises(call.store.docs[i], call.now))
           => resp.body = <<>>

C10_Witness ==
    /\ Listed
    /\ Len(call.store.docs) = 2
    /\ ~GigRaises(call.store.docs[1], call.now)
    /\ "date" \notin DOMAIN call.store.docs[2]
    /\ resp.body = <<>>

====
